---- MODULE Spec2Model ----
(***************************************************************************)
(* Student-Server: an Express router over one PostgreSQL table.            *)
(*                                                                         *)
(*   src/config/dbInit.js   createStudentTable: CREATE TABLE IF NOT EXISTS *)
(*   src/index.js           initialize: await createStudentTable(), listen *)
(*   src/routes/students.js eight handlers, one pool.query(...) each       *)
(*                                                                         *)
(* A handler runs in two steps, split at its only `await`: the synchronous *)
(* prefix reads the request and calls pool.query (the ...Query actions),   *)
(* and the continuation, run when the statement has been executed, sends   *)
(* the response (the ...Reply actions).  The statement takes effect        *)
(* atomically in the ...Reply step: the continuation reads nothing but the *)
(* statement's own result.  Requests of different connections interleave   *)
(* freely between the two steps.                                           *)
(***************************************************************************)
EXTENDS Integers, Sequences, FiniteSets, TLC

VARIABLES
    initState,   \* createStudentTable: "notrun", "running", "ok", "failed"
    initQueries, \* how many times the CREATE TABLE statement was issued
    listening,   \* app.listen has been called
    tableExists, \* storage: the students table exists
    students,    \* storage: the table, id -> row
    seq,         \* storage: last value of the SERIAL sequence behind id
    req,         \* per connection: the request whose statement is in flight
    res,         \* per connection: the response sent to its latest request
    last,        \* history: the connection whose statement executed last
    overlap,     \* history: the connections whose latest requests overlapped
    told,        \* history: id -> the record last answered for the row by
                 \*          Create or Update, until the row is deleted
    deleted      \* history: the ids whose DELETE answered 200

vars == <<initState, initQueries, listening, tableExists, students, seq,
          req, res, last, overlap, told, deleted>>

history == <<told, deleted>>

storage == <<tableExists, students, seq>>

-----------------------------------------------------------------------------
(* Bounds and input domains *)

\* The sequence is capped: no INSERT is accepted once MaxId values are used.
MaxId == 2

\* Connections; each carries one request at a time, and requests of
\* different connections are in flight together.
Conns == {"k1", "k2"}

\* A JSON field or SQL value: absent/NULL, or present.
Null == <<>>
Some(v) == <<v>>

\* req.body after `const { name, age, course, gender } = req.body`; node-pg
\* sends every parameter as text, undefined as NULL.
Body(n, a, c, g) == [name |-> n, age |-> a, course |-> c, gender |-> g]

Ann == Body(Some("Ann"), Some("20"), Some("CS"), Some("female"))
Bob == Body(Some("Bob"), Some("21"), Some("cs"), Some("Female"))
EmptyName == Body(Some(""), Some("20"), Some("CS"), Some("female"))
NoName == Body(Null, Some("20"), Some("CS"), Some("female"))
NoAge == Body(Some("Ann"), Null, Some("CS"), Some("female"))
NoCourse == Body(Some("Ann"), Some("20"), Null, Some("female"))
NoGender == Body(Some("Ann"), Some("20"), Some("CS"), Null)
BadAge == Body(Some("Ann"), Some("abc"), Some("CS"), Some("female"))

Bodies == {Ann, Bob, EmptyName, NoName, NoAge, NoCourse, NoGender, BadAge}
NoBody == Body(Null, Null, Null, Null)

\* req.params.id: the path segment, text.
PathIds == {ToString(i) : i \in 1..MaxId} \cup {"abc"}
PathGenders == {"female", "Female", "male"}
PathCourses == {"CS", "cs", "Math"}
PathNames == {"Ann", "Bob"}

\* The integers the model's texts can denote.
IntRange == 0..30

\* What the clients send.  Full: every input, one connection (requests one
\* after the other).  Racing: two connections with requests in flight
\* together, fewer inputs.
Full == [conns |-> {"k1"}, bodies |-> Bodies, ids |-> PathIds,
         genders |-> PathGenders, courses |-> PathCourses, names |-> PathNames]
Racing == [conns |-> Conns, bodies |-> {Ann, Bob, NoName}, ids |-> {"1"},
           genders |-> {"female"}, courses |-> {"CS"}, names |-> {"Ann"}]

-----------------------------------------------------------------------------
(* Storage: the students table of dbInit.js and the statements of          *)
(* students.js, as PostgreSQL executes them                                *)

\* Text input of an INTEGER parameter ($2 age, $n id).
IsInt4(t) == \E n \in IntRange : ToString(n) = t
Int4In(t) == CHOOSE n \in IntRange : ToString(n) = t

\* A parameter bound to an INTEGER column: NULL stays NULL.
IntParamOk(v) == v = Null \/ IsInt4(v[1])
IntParam(v) == IF v = Null THEN Null ELSE Some(Int4In(v[1]))

\* A row of the table.
Row(i, b) == [id |-> i, name |-> b.name, age |-> IntParam(b.age),
              course |-> b.course, gender |-> b.gender]

\* Fault variant: only name is declared NOT NULL.
NotNullOkNameOnly(r) == r.name # Null

\* The four NOT NULL columns (id is never NULL: it is SERIAL PRIMARY KEY).
NotNullOk(r) == r.name # Null /\ r.age # Null /\ r.course # Null /\ r.gender # Null

\* Fault variant: the id is taken from the rows present (max(id) + 1), not from a
\* sequence.
NextValFromRows ==
    IF DOMAIN students = {} THEN 1
    ELSE (CHOOSE m \in DOMAIN students : \A i \in DOMAIN students : i <= m) + 1

\* nextval of the sequence behind `id SERIAL`.
NextVal == seq + 1

\* The result of one statement: the error raised (or "none"), the rows it
\* returns and the storage state it leaves.
Result(e, rs, tbl, s) == [error |-> e, rows |-> rs, students |-> tbl, seq |-> s]
Failed(e) == Result(e, {}, students, seq)

\* pool.query(text, params): the statement does not reach execution when
\* the pool cannot run it (fault), and fails when the table does not exist.
PoolQuery(fault, stmt) ==
    IF fault THEN Failed("connection")
    ELSE IF ~tableExists THEN Failed("undefined_table")
    ELSE stmt

\* INSERT INTO students (name, age, course, gender) VALUES ($1..$4) RETURNING *
\* The id default (nextval) is computed before the row's constraints are
\* checked, and a sequence value once taken is not given back.
InsertRow(r) == students @@ (r.id :> r)

InsertStudent(b) ==
    IF ~IntParamOk(b.age) THEN Failed("invalid_text_representation")
    ELSE LET r == Row(NextVal, b) IN
         IF ~NotNullOk(r) THEN Result("not_null_violation", {}, students, r.id)
         ELSE IF r.id \in DOMAIN students THEN Result("unique_violation", {}, students, r.id)
         ELSE Result("none", {InsertRow(r)[r.id]}, InsertRow(r), r.id)

\* SELECT * FROM students
SelectAll == Result("none", {students[i] : i \in DOMAIN students}, students, seq)

\* Fault variant: the WHERE clause is missing.
SelectByIdNoWhere(t) ==
    IF ~IsInt4(t) THEN Failed("invalid_text_representation")
    ELSE Result("none", {students[i] : i \in DOMAIN students}, students, seq)

\* SELECT * FROM students WHERE id = $1
SelectById(t) ==
    IF ~IsInt4(t) THEN Failed("invalid_text_representation")
    ELSE Result("none", {students[i] : i \in DOMAIN students \cap {Int4In(t)}}, students, seq)

\* UPDATE students SET name = $1, age = $2, course = $3, gender = $4
\*   WHERE id = $5 RETURNING *
\* Fault variant: the SET list leaves gender out.
UpdateRowKeepsGender(i, b) ==
    [students EXCEPT ![i] = [Row(i, b) EXCEPT !.gender = students[i].gender]]

UpdateRow(i, b) == [students EXCEPT ![i] = Row(i, b)]

\* Fault variant: an UPDATE that matches no row inserts one (an upsert).
UpdateStudentUpsert(t, b) ==
    IF ~IsInt4(t) \/ ~IntParamOk(b.age) THEN Failed("invalid_text_representation")
    ELSE LET i == Int4In(t) IN
         IF ~NotNullOk(Row(i, b)) THEN Failed("not_null_violation")
         ELSE IF i \notin DOMAIN students
              THEN Result("none", {Row(i, b)}, students @@ (i :> Row(i, b)), seq)
         ELSE Result("none", {UpdateRow(i, b)[i]}, UpdateRow(i, b), seq)

UpdateStudent(t, b) ==
    IF ~IsInt4(t) \/ ~IntParamOk(b.age) THEN Failed("invalid_text_representation")
    ELSE LET i == Int4In(t) IN
         IF i \notin DOMAIN students THEN Result("none", {}, students, seq)
         ELSE IF ~NotNullOk(UpdateRow(i, b)[i]) THEN Failed("not_null_violation")
         ELSE Result("none", {UpdateRow(i, b)[i]}, UpdateRow(i, b), seq)

\* DELETE FROM students WHERE id = $1 RETURNING *
\* Fault variant: the WHERE clause does not restrict the rows removed.
DeleteRowsAll(is) == IF is = {} THEN students ELSE <<>>

DeleteRows(is) == [i \in DOMAIN students \ is |-> students[i]]

DeleteStudent(t) ==
    IF ~IsInt4(t) THEN Failed("invalid_text_representation")
    ELSE LET is == DOMAIN students \cap {Int4In(t)} IN
         Result("none", {students[i] : i \in is}, DeleteRows(is), seq)

\* Lower-case folding of the model's texts.
Lower(t) ==
    CASE t = "Female" -> "female"
      [] t = "CS" -> "cs"
      [] t = "Math" -> "math"
      [] t = "Ann" -> "ann"
      [] t = "Bob" -> "bob"
      [] OTHER -> t

\* Fault variant: the comparison ignores case (ILIKE, or LOWER on both sides).
GenderMatchesNoCase(r, t) == r.gender # Null /\ Lower(r.gender[1]) = Lower(t)

\* SELECT * FROM students WHERE gender = $1   (text equality, byte for byte)
GenderMatches(r, t) == r.gender = Some(t)
SelectByGender(t) ==
    Result("none", {r \in SelectAll.rows : GenderMatches(r, t)}, students, seq)

\* SELECT * FROM students WHERE course = $1
CourseMatches(r, t) == r.course = Some(t)
SelectByCourse(t) ==
    Result("none", {r \in SelectAll.rows : CourseMatches(r, t)}, students, seq)

\* SELECT * FROM students WHERE name = $1
SelectByName(t) ==
    Result("none", {r \in SelectAll.rows : r.name = Some(t)}, students, seq)

-----------------------------------------------------------------------------
(* Requests and responses *)

Req(op, id, body, arg) ==
    [op |-> op, id |-> id, body |-> body, arg |-> arg, queries |-> 1]
NoReq == [op |-> "none", id |-> "", body |-> NoBody, arg |-> "", queries |-> 0]

\* op, id: the handler that answered and its req.params.id; status and
\* kind/rows/text: the JSON sent (one row, an array of rows, {error: text} or
\* {message: text}); logged: the error given to console.error; queries: the
\* statements the handler issued.
Response(op, id, status, kind, rows, text, logged, queries) ==
    [op |-> op, id |-> id, status |-> status, kind |-> kind, rows |-> rows,
     text |-> text, logged |-> logged, queries |-> queries]
NoRes == Response("none", "", 0, "none", {}, "", "none", 0)

InFlight == {c \in Conns : req[c] # NoReq}

\* The handler's synchronous prefix: express dispatches the request once the
\* server listens, the handler reads its parameters and calls pool.query.
Accept(c, r) ==
    /\ listening
    /\ req[c] = NoReq
    /\ req' = [req EXCEPT ![c] = r]
    /\ res' = [res EXCEPT ![c] = NoRes]
    /\ overlap' = {p \in overlap : c \notin p} \cup {{c, d} : d \in InFlight}
    /\ UNCHANGED <<initState, initQueries, listening, storage, last, history>>

\* The statement's effect on storage.
Commit(c, r) ==
    /\ students' = r.students
    /\ seq' = r.seq
    /\ last' = c
    /\ UNCHANGED <<initState, initQueries, listening, tableExists, overlap>>

\* res.status(status).json(...)
Send(c, status, kind, rows, text) ==
    /\ res' = [res EXCEPT ![c] =
                 Response(req[c].op, req[c].id, status, kind, rows, text, "none",
                          req[c].queries)]
    /\ req' = [req EXCEPT ![c] = NoReq]

\* Fault variant: the catch block runs the statement again instead of answering.
CatchRetries(c, e) ==
    /\ req' = [req EXCEPT ![c].queries = @ + 1]
    /\ res' = res

\* catch (error) { console.error(error);
\*                 res.status(500).json({ error: 'Database error' }) }
Catch(c, e) ==
    /\ res' = [res EXCEPT ![c] =
                 Response(req[c].op, req[c].id, 500, "error", {}, "Database error", e,
                          req[c].queries)]
    /\ req' = [req EXCEPT ![c] = NoReq]

\* return res.status(404).json({ error: 'Student not found' })
NotFound(c) == Send(c, 404, "error", {}, "Student not found")

\* History: the records a Create (by = "create") or an Update (by = "update")
\* answered, res.status(...).json(result.rows[0]).
Tell(by, rows) ==
    [i \in {x.id : x \in rows} |->
        [by |-> by, row |-> CHOOSE x \in rows : x.id = i]] @@ told

\* History: the rows a Delete removed.
Forget(ids) == [i \in DOMAIN told \ ids |-> told[i]]

-----------------------------------------------------------------------------
(* Startup: src/index.js initialize, src/config/dbInit.js createStudentTable *)

\* initialize() calls createStudentTable(), which calls pool.query(query).
Initialize ==
    /\ initState = "notrun"
    /\ initState' = "running"
    /\ initQueries' = initQueries + 1
    /\ UNCHANGED <<listening, storage, req, res, last, overlap, history>>

\* CREATE TABLE IF NOT EXISTS students (...): the try block logs success,
\* the catch block logs the error and swallows it.
CreateStudentTableReply ==
    /\ initState = "running"
    /\ \E fault \in BOOLEAN :
         /\ initState' = IF fault THEN "failed" ELSE "ok"
         /\ tableExists' = (tableExists \/ ~fault)
    /\ UNCHANGED <<initQueries, listening, students, seq, req, res, last, overlap,
                   history>>

\* Fault variant: createStudentTable() is called without `await`.
NotAwaited == initState # "notrun"

\* `await createStudentTable()`: what follows runs once the call has settled.
Awaited == initState \in {"ok", "failed"}

\* app.listen(PORT, ...)
Listen ==
    /\ Awaited
    /\ ~listening
    /\ listening' = TRUE
    /\ UNCHANGED <<initState, initQueries, storage, req, res, last, overlap, history>>

-----------------------------------------------------------------------------
(* The handlers of src/routes/students.js *)

\* Creates whose INSERT is in flight; each takes one sequence value at most.
PendingCreates == Cardinality({c \in Conns : req[c].op = "create"})

\* POST /students
CreateQuery(c, A) ==
    \E b \in A.bodies :
        /\ seq + PendingCreates < MaxId
        /\ Accept(c, Req("create", "", b, ""))

CreateReply(c) ==
    /\ req[c].op = "create"
    /\ \E fault \in BOOLEAN :
         LET r == PoolQuery(fault, InsertStudent(req[c].body)) IN
         /\ Commit(c, r)
         /\ IF r.error = "none" THEN Send(c, 201, "row", r.rows, "")
            ELSE Catch(c, r.error)
         /\ told' = Tell("create", r.rows)
    /\ UNCHANGED deleted

\* GET /students
ListQuery(c) == Accept(c, Req("list", "", NoBody, ""))

ListReply(c) ==
    /\ req[c].op = "list"
    /\ \E fault \in BOOLEAN :
         LET r == PoolQuery(fault, SelectAll) IN
         /\ Commit(c, r)
         /\ IF r.error = "none" THEN Send(c, 200, "array", r.rows, "")
            ELSE Catch(c, r.error)
    /\ UNCHANGED history

\* GET /students/:id
GetByIdQuery(c, A) == \E t \in A.ids : Accept(c, Req("get", t, NoBody, ""))

GetByIdReply(c) ==
    /\ req[c].op = "get"
    /\ \E fault \in BOOLEAN :
         LET r == PoolQuery(fault, SelectById(req[c].id)) IN
         /\ Commit(c, r)
         /\ IF r.error # "none" THEN Catch(c, r.error)
            ELSE IF r.rows = {} THEN NotFound(c)
            ELSE Send(c, 200, "row", r.rows, "")
    /\ UNCHANGED history

\* PUT /students/:id
UpdateQuery(c, A) ==
    \E t \in A.ids, b \in A.bodies : Accept(c, Req("update", t, b, ""))

UpdateReply(c) ==
    /\ req[c].op = "update"
    /\ \E fault \in BOOLEAN :
         LET r == PoolQuery(fault, UpdateStudent(req[c].id, req[c].body)) IN
         /\ Commit(c, r)
         /\ IF r.error # "none" THEN Catch(c, r.error)
            ELSE IF r.rows = {} THEN NotFound(c)
            ELSE Send(c, 200, "row", r.rows, "")
         /\ told' = Tell("update", r.rows)
    /\ UNCHANGED deleted

\* DELETE /students/:id
DeleteQuery(c, A) == \E t \in A.ids : Accept(c, Req("delete", t, NoBody, ""))

DeleteReply(c) ==
    /\ req[c].op = "delete"
    /\ \E fault \in BOOLEAN :
         LET r == PoolQuery(fault, DeleteStudent(req[c].id)) IN
         /\ Commit(c, r)
         /\ IF r.error # "none" THEN Catch(c, r.error)
            ELSE IF r.rows = {} THEN NotFound(c)
            ELSE Send(c, 200, "message", {}, "Student deleted successfully")
         /\ told' = Forget({x.id : x \in r.rows})
         /\ deleted' = deleted \cup {x.id : x \in r.rows}

\* GET /students/gender/:gender
ByGenderQuery(c, A) == \E t \in A.genders : Accept(c, Req("gender", "", NoBody, t))

ByGenderReply(c) ==
    /\ req[c].op = "gender"
    /\ \E fault \in BOOLEAN :
         LET r == PoolQuery(fault, SelectByGender(req[c].arg)) IN
         /\ Commit(c, r)
         /\ IF r.error = "none" THEN Send(c, 200, "array", r.rows, "")
            ELSE Catch(c, r.error)
    /\ UNCHANGED history

\* GET /students/course/:course
ByCourseQuery(c, A) == \E t \in A.courses : Accept(c, Req("course", "", NoBody, t))

ByCourseReply(c) ==
    /\ req[c].op = "course"
    /\ \E fault \in BOOLEAN :
         LET r == PoolQuery(fault, SelectByCourse(req[c].arg)) IN
         /\ Commit(c, r)
         /\ IF r.error = "none" THEN Send(c, 200, "array", r.rows, "")
            ELSE Catch(c, r.error)
    /\ UNCHANGED history

\* GET /students/name/:name: result.rows[0], whichever row storage lists first
ByNameQuery(c, A) == \E t \in A.names : Accept(c, Req("name", "", NoBody, t))

ByNameReply(c) ==
    /\ req[c].op = "name"
    /\ \E fault \in BOOLEAN :
         LET r == PoolQuery(fault, SelectByName(req[c].arg)) IN
         /\ Commit(c, r)
         /\ IF r.error # "none" THEN Catch(c, r.error)
            ELSE IF r.rows = {} THEN NotFound(c)
            ELSE \E first \in r.rows : Send(c, 200, "row", {first}, "")
    /\ UNCHANGED history

-----------------------------------------------------------------------------
(* The system *)

\* The process starts with nothing run; the database outlives the process,
\* so the table may be there already (CREATE TABLE IF NOT EXISTS).
Init ==
    /\ initState = "notrun"
    /\ initQueries = 0
    /\ listening = FALSE
    /\ tableExists \in BOOLEAN
    /\ students = <<>>
    /\ seq = 0
    /\ req = [c \in Conns |-> NoReq]
    /\ res = [c \in Conns |-> NoRes]
    /\ last = "none"
    /\ overlap = {}
    /\ told = <<>>
    /\ deleted = {}

Next(A) ==
    \/ Initialize
    \/ CreateStudentTableReply
    \/ Listen
    \/ \E c \in A.conns : CreateQuery(c, A)
    \/ \E c \in A.conns : CreateReply(c)
    \/ \E c \in A.conns : ListQuery(c)
    \/ \E c \in A.conns : ListReply(c)
    \/ \E c \in A.conns : GetByIdQuery(c, A)
    \/ \E c \in A.conns : GetByIdReply(c)
    \/ \E c \in A.conns : UpdateQuery(c, A)
    \/ \E c \in A.conns : UpdateReply(c)
    \/ \E c \in A.conns : DeleteQuery(c, A)
    \/ \E c \in A.conns : DeleteReply(c)
    \/ \E c \in A.conns : ByGenderQuery(c, A)
    \/ \E c \in A.conns : ByGenderReply(c)
    \/ \E c \in A.conns : ByCourseQuery(c, A)
    \/ \E c \in A.conns : ByCourseReply(c)
    \/ \E c \in A.conns : ByNameQuery(c, A)
    \/ \E c \in A.conns : ByNameReply(c)

\* Every input, requests one after the other.
Spec == Init /\ [][Next(Full)]_vars

\* Requests of two connections in flight together.
RaceSpec == Init /\ [][Next(Racing)]_vars

-----------------------------------------------------------------------------
(* Vocabulary of the properties *)

\* The step in which handler `op` of connection c answers its request.
Replied(c, op) == req[c].op = op /\ req'[c] = NoReq

\* The id a well-formed path segment denotes (0 stands for a malformed one:
\* the sequence starts at 1, so 0 is never a row's id).
PathId(c) == IF IsInt4(req[c].id) THEN Int4In(req[c].id) ELSE 0

\* The statement of the response raised no error.
NoError(r) == r.logged = "none"

\* A body with four valid fields: all present, age the text of an integer.
ValidBody(b) ==
    /\ b.name # Null /\ b.age # Null /\ b.course # Null /\ b.gender # Null
    /\ IsInt4(b.age[1])

\* Storage could run the statement: the pool reached it and the table exists.
StorageRan(r) == r.logged \notin {"connection", "undefined_table"}

\* The one record of a response that carries one record.
TheRow(r) == CHOOSE x \in r.rows : TRUE

-----------------------------------------------------------------------------
(* C1 *)

\* C1: a Create whose body has four valid fields answers 201 (when storage
\* runs the statement) with one record carrying the body's four values and
\* the id storage assigned, a positive integer; and a Get-by-id on an id whose
\* record was last answered by Create (no update or delete of it since)
\* answers 200 with exactly that record.
C1_CreateThenGet ==
    [][\A c \in Conns :
        /\ (Replied(c, "create") /\ ValidBody(req[c].body) /\ StorageRan(res'[c]))
              => /\ res'[c].status = 201
                 /\ res'[c].kind = "row"
                 /\ res'[c].rows = {Row(seq', req[c].body)}
                 /\ seq' >= 1
                 /\ seq' \notin DOMAIN students
                 /\ TheRow(res'[c]).name = req[c].body.name
                 /\ TheRow(res'[c]).age = Some(Int4In(req[c].body.age[1]))
                 /\ TheRow(res'[c]).course = req[c].body.course
                 /\ TheRow(res'[c]).gender = req[c].body.gender
                 /\ told'[seq'] = [by |-> "create", row |-> TheRow(res'[c])]
        /\ (Replied(c, "get") /\ NoError(res'[c]) /\ PathId(c) \in DOMAIN told
                /\ told[PathId(c)].by = "create")
              => /\ res'[c].status = 200
                 /\ res'[c].kind = "row"
                 /\ res'[c].rows = {told[PathId(c)].row}
    ]_vars

\* A Get-by-id has just answered 200 with the record Create answered.
C1_Witness ==
    \E c \in Conns :
        /\ res[c].op = "get" /\ res[c].status = 200
        /\ IsInt4(res[c].id) /\ Int4In(res[c].id) \in DOMAIN told
        /\ told[Int4In(res[c].id)].by = "create"
        /\ res[c].rows = {told[Int4In(res[c].id)].row}
        /\ Cardinality(DOMAIN students) = 2

-----------------------------------------------------------------------------
(* C2 *)

\* Every row is stored under its own id.
KeyedById(tbl) == \A i \in DOMAIN tbl : tbl[i].id = i

\* C2: ids are never reused or changed.  The id a Create assigns is larger
\* than every id assigned before, so it is the id of no row and of no deleted
\* row; the rows of the table have pairwise distinct ids, so a List holds
\* each row exactly once; an Update leaves the ids of all rows as they were.
C2_IdsNeverReused ==
    [][/\ KeyedById(students')
       /\ \A i \in DOMAIN students' : i <= seq'
       /\ \A c \in Conns :
            /\ (Replied(c, "create") /\ res'[c].status = 201)
                  => /\ TheRow(res'[c]).id > seq
                     /\ TheRow(res'[c]).id \notin DOMAIN students \cup deleted
                     /\ \A i \in DOMAIN students \cup deleted : i <= seq
                     /\ DOMAIN students' = DOMAIN students \cup {TheRow(res'[c]).id}
            /\ (Replied(c, "list") /\ res'[c].status = 200)
                  => \A i \in DOMAIN students :
                        Cardinality({x \in res'[c].rows : x.id = i}) = 1
            /\ (Replied(c, "update") /\ res'[c].status = 200)
                  => /\ DOMAIN students' = DOMAIN students
                     /\ TheRow(res'[c]).id = PathId(c)
                     /\ students'[PathId(c)].id = PathId(c)
    ]_vars

\* A Create has been answered 201 after a row was deleted, with an id that
\* is no deleted row's.
C2_Witness ==
    \E c \in Conns :
        /\ res[c].op = "create" /\ res[c].status = 201
        /\ deleted # {}
        /\ TheRow(res[c]).id \notin deleted

-----------------------------------------------------------------------------
(* C3 *)

\* C3: an Update on the id of an existing row, when its statement raises no
\* error, answers 200 with the updated record, which has the same id and the
\* body's four values; the row is replaced by that record and every other
\* row is unchanged; and a Get-by-id on an id whose record was last answered
\* by Update answers 200 with that record.
C3_UpdateReplacesAll ==
    [][\A c \in Conns :
        /\ (Replied(c, "update") /\ PathId(c) \in DOMAIN students /\ NoError(res'[c]))
              => /\ res'[c].status = 200
                 /\ res'[c].kind = "row"
                 /\ res'[c].rows = {students'[PathId(c)]}
                 /\ students'[PathId(c)] =
                       [id |-> PathId(c), name |-> req[c].body.name,
                        age |-> Some(Int4In(req[c].body.age[1])),
                        course |-> req[c].body.course, gender |-> req[c].body.gender]
                 /\ DOMAIN students' = DOMAIN students
                 /\ \A j \in DOMAIN students \ {PathId(c)} : students'[j] = students[j]
                 /\ told'[PathId(c)] = [by |-> "update", row |-> students'[PathId(c)]]
        /\ (Replied(c, "update") /\ PathId(c) \in DOMAIN students /\ ValidBody(req[c].body)
                /\ StorageRan(res'[c]))
              => res'[c].status = 200
        /\ (Replied(c, "get") /\ NoError(res'[c]) /\ PathId(c) \in DOMAIN told
                /\ told[PathId(c)].by = "update")
              => /\ res'[c].status = 200
                 /\ res'[c].rows = {told[PathId(c)].row}
                 /\ TheRow(res'[c]).id = PathId(c)
    ]_vars

\* A Get-by-id has answered the record of an Update that changed all four
\* fields of a row, while another row is in the table.
C3_Witness ==
    \E c \in Conns :
        /\ res[c].op = "get" /\ res[c].status = 200
        /\ IsInt4(res[c].id) /\ Int4In(res[c].id) \in DOMAIN told
        /\ told[Int4In(res[c].id)].by = "update"
        /\ res[c].rows = {Row(Int4In(res[c].id), Bob)}
        /\ Cardinality(DOMAIN students) = 2

-----------------------------------------------------------------------------
(* C4 *)

\* C4: a Get-by-id, Update or Delete whose id (an integer) matches no row
\* leaves the table as it was, rows and ids, and answers 404 'Student not
\* found' (500 only when its statement raises an error); an Update on such
\* an id creates no row.
C4_NotFound ==
    [][\A c \in Conns :
        (/\ Replied(c, "get") \/ Replied(c, "update") \/ Replied(c, "delete")
         /\ IsInt4(req[c].id)
         /\ PathId(c) \notin DOMAIN students)
           => /\ students' = students
              /\ res'[c].status \in {404, 500}
              /\ NoError(res'[c]) =>
                    /\ res'[c].status = 404
                    /\ res'[c].kind = "error"
                    /\ res'[c].text = "Student not found"
                    /\ res'[c].rows = {}
              /\ (ValidBody(req[c].body) \/ req[c].op # "update") /\ StorageRan(res'[c])
                    => res'[c].status = 404
    ]_vars

\* An Update with a valid body has been answered 404 and the id is still no
\* row's, while the table holds a row.
C4_Witness ==
    \E c \in Conns :
        /\ res[c].op = "update" /\ res[c].status = 404
        /\ IsInt4(res[c].id) /\ Int4In(res[c].id) \notin DOMAIN students
        /\ students # <<>>

-----------------------------------------------------------------------------
(* C5 *)

\* C5: a Delete on the id of an existing row, when its statement raises no
\* error, answers 200 and removes that row and no other; no deleted id is a
\* row's id again, and a Get-by-id on a deleted id that raises no error
\* answers 404, whatever was created, updated or deleted in between.
C5_DeleteIsFinal ==
    [][/\ deleted' \cap DOMAIN students' = {}
       /\ deleted \subseteq deleted'
       /\ \A c \in Conns :
            /\ (Replied(c, "delete") /\ PathId(c) \in DOMAIN students /\ NoError(res'[c]))
                  => /\ res'[c].status = 200
                     /\ res'[c].kind = "message"
                     /\ DOMAIN students' = DOMAIN students \ {PathId(c)}
                     /\ \A j \in DOMAIN students' : students'[j] = students[j]
                     /\ PathId(c) \in deleted'
            /\ (Replied(c, "delete") /\ PathId(c) \in DOMAIN students)
                  => StorageRan(res'[c]) = NoError(res'[c])
            /\ (Replied(c, "get") /\ PathId(c) \in deleted /\ NoError(res'[c]))
                  => res'[c].status = 404
    ]_vars

\* A Get-by-id on a deleted id has answered 404 after a later Create, and
\* another row is still in the table.
C5_Witness ==
    \E c \in Conns :
        /\ res[c].op = "get" /\ res[c].status = 404
        /\ IsInt4(res[c].id) /\ Int4In(res[c].id) \in deleted
        /\ \E j \in DOMAIN students : j > Int4In(res[c].id)

-----------------------------------------------------------------------------
(* C6 *)

\* C6: List-by-gender and List-by-course, when the statement raises no error,
\* answer 200 with an array holding exactly the rows whose gender (course) is
\* the path value, compared exactly; the array is empty, and the answer still
\* 200, when no row matches.
C6_ExactFilters ==
    [][\A c \in Conns :
        /\ (Replied(c, "gender") /\ NoError(res'[c]))
              => /\ res'[c].status = 200
                 /\ res'[c].kind = "array"
                 /\ res'[c].rows =
                       {students[i] : i \in {j \in DOMAIN students :
                                               students[j].gender = <<req[c].arg>>}}
        /\ (Replied(c, "course") /\ NoError(res'[c]))
              => /\ res'[c].status = 200
                 /\ res'[c].kind = "array"
                 /\ res'[c].rows =
                       {students[i] : i \in {j \in DOMAIN students :
                                               students[j].course = <<req[c].arg>>}}
        /\ (Replied(c, "gender") \/ Replied(c, "course"))
              => /\ res'[c].status \in {200, 500}
                 /\ StorageRan(res'[c]) = NoError(res'[c])
                 /\ students' = students
    ]_vars

\* List-by-gender has answered one of two rows whose genders differ in case
\* only.
C6_Witness ==
    \E c \in Conns :
        /\ res[c].op = "gender" /\ res[c].status = 200
        /\ Cardinality(res[c].rows) = 1
        /\ \E i, j \in DOMAIN students :
              /\ students[i] \in res[c].rows
              /\ students[j] \notin res[c].rows
              /\ Lower(students[i].gender[1]) = Lower(students[j].gender[1])

\* List-by-course has answered 200 with an empty array while the table holds
\* rows.
C6_WitnessEmpty ==
    \E c \in Conns :
        /\ res[c].op = "course" /\ res[c].status = 200 /\ res[c].kind = "array"
        /\ res[c].rows = {}
        /\ students # <<>>

-----------------------------------------------------------------------------
(* C8 *)

\* No request is in flight or answered before the server listens.
ServedOnlyWhenListening ==
    \A c \in Conns : (req[c] # NoReq \/ res[c] # NoRes) => listening

\* The CREATE TABLE statement is issued once and has settled before the
\* server listens; a failed one leaves the server free to listen.
InitOnceBeforeListen ==
    /\ initQueries <= 1
    /\ initState # "notrun" => initQueries = 1
    /\ listening => initState \in {"ok", "failed"}
    /\ initState = "ok" => tableExists
    /\ (initState = "failed" /\ ~listening) => ENABLED Listen
    /\ ServedOnlyWhenListening

\* C8 as stated: after a failed initialization every data operation answers
\* 500.
C8_Original ==
    /\ InitOnceBeforeListen
    /\ initState = "failed" => \A c \in Conns : res[c] # NoRes => res[c].status = 500

\* C8, amended: the schema statement runs exactly once and settles, with
\* success or failure, before the server listens, so no request is handled
\* earlier; a failed initialization does not keep the server from listening,
\* and then, when the table does not exist, every data operation answers 500
\* 'Database error'.
C8_InitThenListen ==
    /\ InitOnceBeforeListen
    /\ (initState = "failed" /\ ~tableExists) =>
          \A c \in Conns : res[c] # NoRes =>
              /\ res[c].status = 500
              /\ res[c].text = "Database error"
              /\ students = <<>>

\* The server listens after a failed initialization, the table is missing and
\* a request has been answered 500.
C8_Witness ==
    /\ initState = "failed" /\ listening /\ ~tableExists /\ initQueries = 1
    /\ \E c \in Conns : res[c].status = 500 /\ res[c].logged = "undefined_table"

-----------------------------------------------------------------------------
(* C9 *)

\* Some field of the body is missing.
OmitsField(b) == b.name = Null \/ b.age = Null \/ b.course = Null \/ b.gender = Null

\* Every stored row has all four fields.
RowsComplete(tbl) ==
    \A i \in DOMAIN tbl :
        tbl[i].name # Null /\ tbl[i].age # Null /\ tbl[i].course # Null
            /\ tbl[i].gender # Null

\* C9 as stated: stored names are also non-empty, and a body with an empty
\* name stores or changes nothing.
C9_Original ==
    [][/\ RowsComplete(students')
       /\ \A i \in DOMAIN students' : students'[i].name # <<"">>
       /\ \A c \in Conns :
            (/\ Replied(c, "create") \/ Replied(c, "update")
             /\ OmitsField(req[c].body) \/ req[c].body.name = <<"">>)
               => students' = students
    ]_vars

\* C9, amended: all four fields are mandatory for creation and for update:
\* every stored row has a non-null name, age, course and gender, and a Create
\* or Update whose body omits a field stores or changes nothing (it is never
\* answered 200 or 201).  The name need not be non-empty: a body whose name
\* is the empty text is stored like any other.
C9_FieldsMandatory ==
    [][/\ RowsComplete(students')
       /\ \A c \in Conns :
            /\ (/\ Replied(c, "create") \/ Replied(c, "update")
                /\ OmitsField(req[c].body))
                  => /\ students' = students
                     /\ res'[c].status \in {404, 500}
                     /\ res'[c].status = 404 => req[c].op = "update"
            /\ (Replied(c, "create") /\ req[c].body = EmptyName /\ StorageRan(res'[c]))
                  => /\ res'[c].status = 201
                     /\ students'[seq'].name = <<"">>
    ]_vars

\* A Create that omitted a field has been answered 500 for the NOT NULL
\* constraint, and a row with an empty name is stored.
C9_Witness ==
    /\ \E c \in Conns :
          res[c].op = "create" /\ res[c].status = 500
              /\ res[c].logged = "not_null_violation"
    /\ \E i \in DOMAIN students : students[i].name = <<"">>

-----------------------------------------------------------------------------
(* C7 *)

\* The step in which the statement of connection c's request is executed.
Executed(c) == req[c] # NoReq /\ (req'[c] # req[c] \/ res'[c] # res[c])

\* What a request whose statement failed does, but for the sequence.
FailureIsolated(c) ==
    /\ Executed(c) => (req'[c] = NoReq /\ res'[c].queries = 1)
    /\ (Executed(c) /\ ~NoError(res'[c]))
          => /\ res'[c].status = 500
             /\ res'[c].kind = "error"
             /\ res'[c].text = "Database error"
             /\ res'[c].rows = {}
             /\ students' = students
             /\ tableExists' = tableExists
             /\ listening'
             /\ \A d \in Conns \ {c} : req'[d] = req[d] /\ res'[d] = res[d]
    /\ Executed(c) => (res'[c].status = 500) = ~NoError(res'[c])

\* C7 as stated: a failed request leaves storage as if it had not happened.
C7_Original ==
    [][\A c \in Conns :
        /\ FailureIsolated(c)
        /\ (Executed(c) /\ ~NoError(res'[c])) => seq' = seq
    ]_vars

\* C7, amended: a request whose statement fails is answered 500 'Database
\* error' after that one statement (no retry), leaves the rows of the table,
\* the server and the requests and responses of the other connections as
\* they were, and the connection free for its next request.  Storage is as
\* if the request had not happened except for the id sequence: a Create
\* rejected by a constraint has taken one id, which no later Create is given.
C7_FailureIsolated ==
    [][\A c \in Conns :
        /\ FailureIsolated(c)
        /\ (Executed(c) /\ ~NoError(res'[c]))
              => /\ seq' \in {seq, seq + 1}
                 /\ seq' # seq => /\ req[c].op = "create"
                                  /\ res'[c].logged = "not_null_violation"
    ]_vars

\* A request has been answered 500 while the other connection's request was
\* in flight, and the table holds a row.
C7_Witness ==
    \E c, d \in Conns :
        /\ c # d
        /\ res[c].status = 500 /\ last = c
        /\ req[d] # NoReq /\ {c, d} \in overlap
        /\ students # <<>>

-----------------------------------------------------------------------------
(* C10 *)

\* The id of an answered Update or Delete (0 for a malformed path segment).
AnsweredId(r) == IF IsInt4(r.id) THEN Int4In(r.id) ELSE 0

\* Two overlapping Updates of one id, both answered 200: the row is the
\* record of the one executed last.
LastUpdateWins ==
    \A c, d \in Conns :
        (/\ c # d /\ {c, d} \in overlap /\ last \in {c, d}
         /\ res[c].op = "update" /\ res[c].status = 200
         /\ res[d].op = "update" /\ res[d].status = 200
         /\ res[c].id = res[d].id)
           => /\ AnsweredId(res[c]) \in DOMAIN students
              /\ students[AnsweredId(res[c])] = TheRow(res[last])
              /\ students[AnsweredId(res[c])] \in {TheRow(res[c]), TheRow(res[d])}

\* An Update (c) overlapping a Delete (d) of the same id that answered 200:
\* the row is gone, and the Update answered 200 only if it was executed
\* first, else 404 (500 if its statement raised an error).
UpdateRacesDelete ==
    \A c, d \in Conns :
        (/\ c # d /\ {c, d} \in overlap /\ last \in {c, d}
         /\ res[c].op = "update"
         /\ res[d].op = "delete" /\ res[d].status = 200
         /\ res[c].id = res[d].id)
           => /\ AnsweredId(res[d]) \notin DOMAIN students
              /\ res[c].status \in {200, 404, 500}
              /\ NoError(res[c]) = (res[c].status \in {200, 404})
              /\ res[c].status = 200 => last = d
              /\ (last = c /\ NoError(res[c])) => res[c].status = 404

\* C10: every handler issues exactly one statement, applied atomically.  An
\* Update answered 200 has stored its complete four-field body; of two
\* overlapping Updates of one id the one executed last wins, whole; an Update
\* racing a Delete of its id leaves the row absent and answers 200 or 404.
C10_OneAtomicStatement ==
    [][/\ LastUpdateWins'
       /\ UpdateRacesDelete'
       /\ \A c \in Conns :
            /\ req'[c] # NoReq => req'[c].queries = 1
            /\ res'[c] # NoRes => res'[c].queries = 1
            /\ Executed(c) => req'[c] = NoReq
            /\ (Replied(c, "update") /\ res'[c].status = 200)
                  => /\ res'[c].rows = {students'[PathId(c)]}
                     /\ students'[PathId(c)].name = req[c].body.name
                     /\ students'[PathId(c)].age = <<Int4In(req[c].body.age[1])>>
                     /\ students'[PathId(c)].course = req[c].body.course
                     /\ students'[PathId(c)].gender = req[c].body.gender
    ]_vars

\* Two overlapping Updates of one id with different bodies have both been
\* answered 200.
C10_Witness ==
    \E c, d \in Conns :
        /\ c # d /\ {c, d} \in overlap /\ last = d
        /\ res[c].op = "update" /\ res[c].status = 200
        /\ res[d].op = "update" /\ res[d].status = 200
        /\ res[c].id = res[d].id
        /\ TheRow(res[c]).name # TheRow(res[d]).name
        /\ TheRow(res[c]).gender # TheRow(res[d]).gender
        /\ students[AnsweredId(res[c])] = TheRow(res[d])

\* An Update overlapping a Delete of its id was executed after it and
\* answered 404.
C10_WitnessDelete ==
    \E c, d \in Conns :
        /\ c # d /\ {c, d} \in overlap /\ last = c
        /\ res[c].op = "update" /\ res[c].status = 404
        /\ res[d].op = "delete" /\ res[d].status = 200
        /\ res[c].id = res[d].id

====
